---- MODULE Spec2Model ----
(***************************************************************************)
(* Model of the Eliot desk BLE client (custom_components/eliot/ble.py):    *)
(* the frame codec (make_frame, decode_height), the EliotDeskClient        *)
(* session (connect with retry, command methods, get_height correlation)   *)
(* and the notification handler, run by concurrent asyncio tasks over one  *)
(* session.                                                                *)
(*                                                                         *)
(* Atomicity follows asyncio: a step of a task runs from one suspension    *)
(* point (an awaited transport call, sleep or event wait) to the next.     *)
(* A transport call is issued at the end of one step (its receiver         *)
(* self._client is read then) and completes, with success or an error, at  *)
(* the start of the task's next step.                                      *)
(***************************************************************************)
EXTENDS Integers, Sequences, FiniteSets, TLC

(***************************************************************************)
(* Bounds of the model.                                                    *)
(***************************************************************************)
\* concurrent callers of the session (asyncio tasks)
NumTasks == 2
\* method calls started in one behaviour
MaxCalls == 2
\* transport errors and link losses in one behaviour with one caller at a time
MaxFaults == 3
\* transport errors and link losses in one behaviour with concurrent callers
MaxFaultsConc == 1
\* callbacks scheduled on the loop and not yet run
MaxQueue == 2
\* BleakClient objects that are connected or in use at the same time
MaxConns == 4

\* longest payload given to make_frame
MaxPayloadLen == 2

Tasks == 1..NumTasks
ConnIds == 1..MaxConns

(***************************************************************************)
(* Optional values: None is the empty tuple, a value v is <<v>>.           *)
(***************************************************************************)
None == <<>>
Some(v) == <<v>>

(***************************************************************************)
(* Frame codec.                                                            *)
(***************************************************************************)
START_BYTES == <<241, 241>>
END_BYTE == 126

RECURSIVE sum(_)
sum(s) == IF s = <<>> THEN 0 ELSE Head(s) + sum(Tail(s))

\* checksum without the & 0xFF
checksum_NoMask(cmd, payload) == cmd + Len(payload) + sum(payload)

checksum(cmd, payload) == (cmd + Len(payload) + sum(payload)) % 256

make_frame(cmd, payload) ==
    START_BYTES \o <<cmd, Len(payload)>> \o payload
                \o <<checksum(cmd, payload)>> \o <<END_BYTE>>

MOVE_UP == make_frame(1, <<>>)
MOVE_DOWN == make_frame(2, <<>>)
STOP == make_frame(43, <<>>)
CONNECT_FRAME == make_frame(254, <<>>)
QUERY_HEIGHT == make_frame(7, <<>>)
ZERO_FRAME == make_frame(0, <<>>)
SIT_PRESET == make_frame(27, <<2, 218>>)
STAND_PRESET == make_frame(27, <<3, 6>>)
LOCK_FRAME == make_frame(31, <<1>>)
UNLOCK_FRAME == LOCK_FRAME

\* decode_height reading variant A as high, low (big-endian)
decode_height_BigEndianA(packet) ==
    IF Len(packet) < 7 \/ packet[Len(packet)] # END_BYTE
    THEN None
    ELSE IF packet[1] = 241 /\ packet[2] = 241 /\ packet[4] >= 2
            /\ packet[3] \in {7, 21}
         THEN Some(((packet[5] * 256) + packet[6]) * 10)
         ELSE IF packet[1] = 242 /\ packet[2] = 242 /\ packet[3] = 1
                 /\ packet[4] >= 3
              THEN LET height == (packet[5] * 256) + packet[6]
                   IN  Some(IF height < 300 THEN height * 10 ELSE height)
              ELSE None

\* decode_height converting variant B when the value is at most 300
decode_height_UpTo300(packet) ==
    IF Len(packet) < 7 \/ packet[Len(packet)] # END_BYTE
    THEN None
    ELSE IF packet[1] = 241 /\ packet[2] = 241 /\ packet[4] >= 2
            /\ packet[3] \in {7, 21}
         THEN Some(((packet[6] * 256) + packet[5]) * 10)
         ELSE IF packet[1] = 242 /\ packet[2] = 242 /\ packet[3] = 1
                 /\ packet[4] >= 3
              THEN LET height == (packet[5] * 256) + packet[6]
                   IN  Some(IF height <= 300 THEN height * 10 ELSE height)
              ELSE None

\* packet[i] of the source is packet[i+1] here (sequences start at 1)
decode_height(packet) ==
    IF Len(packet) < 7 \/ packet[Len(packet)] # END_BYTE
    THEN None
    ELSE IF packet[1] = 241 /\ packet[2] = 241 /\ packet[4] >= 2
            /\ packet[3] \in {7, 21}
         THEN Some(((packet[6] * 256) + packet[5]) * 10)
         ELSE IF packet[1] = 242 /\ packet[2] = 242 /\ packet[3] = 1
                 /\ packet[4] >= 3
              THEN LET height == (packet[5] * 256) + packet[6]
                   IN  Some(IF height < 300 THEN height * 10 ELSE height)
              ELSE None

\* is_lock_frame accepting every declared length from 1 up
is_lock_frame_AnyLength(data) ==
    /\ Len(data) >= 6
    /\ data[1] = 242
    /\ data[2] = 242
    /\ data[3] = 31
    /\ data[4] >= 1

\* is_lock_frame testing the header only, not the command and length bytes
is_lock_frame_HeaderOnly(data) ==
    /\ Len(data) >= 6
    /\ data[1] = 242
    /\ data[2] = 242

\* the lock-state test of _handle_notify
is_lock_frame(data) ==
    /\ Len(data) >= 6
    /\ data[1] = 242
    /\ data[2] = 242
    /\ data[3] = 31
    /\ data[4] = 1

locked_flag(data) == data[5] = 1


(***************************************************************************)
(* Inputs.                                                                 *)
(***************************************************************************)
\* the methods of EliotDeskClient a caller may start
Commands == {"move_up", "move_down", "stop", "move_sit", "move_stand",
             "lock", "unlock", "save_sit_preset", "save_stand_preset",
             "set_height_mm", "get_height"}
Methods == Commands \cup {"connect", "disconnect"}

\* target heights given to set_height_mm
TargetsMm == {750}

\* Frames with the target of set_height_mm encoded low byte first
Frames_LittleEndianTarget(m, a) ==
    CASE m = "move_up" -> <<MOVE_UP>>
      [] m = "move_down" -> <<MOVE_DOWN>>
      [] m = "stop" -> <<STOP>>
      [] m = "move_sit" -> <<SIT_PRESET>>
      [] m = "move_stand" -> <<STAND_PRESET>>
      [] m = "lock" -> <<LOCK_FRAME>>
      [] m = "unlock" -> <<UNLOCK_FRAME>>
      [] m = "save_sit_preset" -> <<ZERO_FRAME, make_frame(2, <<>>)>>
      [] m = "save_stand_preset" -> <<ZERO_FRAME, STOP>>
      [] m = "set_height_mm" ->
            <<ZERO_FRAME, make_frame(27, <<a % 256, (a \div 256) % 256>>)>>
      [] m = "get_height" -> <<QUERY_HEIGHT>>
      [] OTHER -> <<>>

\* Frames with the payload frame written before the priming frame
Frames_PayloadFirst(m, a) ==
    CASE m = "move_up" -> <<MOVE_UP>>
      [] m = "move_down" -> <<MOVE_DOWN>>
      [] m = "stop" -> <<STOP>>
      [] m = "move_sit" -> <<SIT_PRESET>>
      [] m = "move_stand" -> <<STAND_PRESET>>
      [] m = "lock" -> <<LOCK_FRAME>>
      [] m = "unlock" -> <<UNLOCK_FRAME>>
      [] m = "save_sit_preset" -> <<make_frame(2, <<>>), ZERO_FRAME>>
      [] m = "save_stand_preset" -> <<STOP, ZERO_FRAME>>
      [] m = "set_height_mm" ->
            <<make_frame(27, <<(a \div 256) % 256, a % 256>>), ZERO_FRAME>>
      [] m = "get_height" -> <<QUERY_HEIGHT>>
      [] OTHER -> <<>>

\* the frames a method writes after ensure_connected(), in order
Frames(m, a) ==
    CASE m = "move_up" -> <<MOVE_UP>>
      [] m = "move_down" -> <<MOVE_DOWN>>
      [] m = "stop" -> <<STOP>>
      [] m = "move_sit" -> <<SIT_PRESET>>
      [] m = "move_stand" -> <<STAND_PRESET>>
      [] m = "lock" -> <<LOCK_FRAME>>
      [] m = "unlock" -> <<UNLOCK_FRAME>>
      [] m = "save_sit_preset" -> <<ZERO_FRAME, make_frame(2, <<>>)>>
      [] m = "save_stand_preset" -> <<ZERO_FRAME, STOP>>
      [] m = "set_height_mm" ->
            <<ZERO_FRAME, make_frame(27, <<(a \div 256) % 256, a % 256>>)>>
      [] m = "get_height" -> <<QUERY_HEIGHT>>
      [] OTHER -> <<>>

\* notification buffers delivered to the session while it runs commands
SessionPackets ==
    { <<241, 241, 7, 2, 10, 0, 19, 126>>,        \* variant A, 100 mm
      <<242, 242, 1, 3, 2, 238, 0, 244, 126>> }  \* variant B, 750 mm

(***************************************************************************)
(* State.                                                                  *)
(***************************************************************************)
VARIABLES
    client,           \* self._client: 0 is None, else a connection id
    conns,            \* the BleakClient objects, by connection id
    height_mm,        \* self._height_mm
    locked,           \* self._locked
    height_event,     \* self._height_event: 0 is None/absent, else an index
    events,           \* the asyncio.Event objects created so far: is_set()
    height_callback,  \* self._height_callback is registered
    lock_callback,    \* self._lock_callback is registered
    writes,           \* the write_gatt_char calls, in the order issued
    cbQueue,          \* callbacks scheduled with call_soon_threadsafe
    tk,               \* per task: position and locals of its method call
    nCalls,           \* method calls started
    faults,           \* transport errors and link losses still to come
    lastLock,         \* locked value of the latest lock-state notification
    codec             \* a call of make_frame or decode_height: its
                      \* arguments and, once it has returned, its result

vars == <<client, conns, height_mm, locked, height_event, events,
          height_callback, lock_callback, writes, cbQueue, tk, nCalls,
          faults, lastLock, codec>>

NoErr == [kind |-> "none", cause |-> None]

\* no call of the codec functions is under way
NoCall == [fn |-> "none", args |-> <<>>, result |-> None]

IdleTask ==
    [pc |-> "idle", op |-> "none", meth |-> "none", arg |-> 0, call |-> 0,
     attempt |-> 0, last_err |-> None, target |-> 0, step |-> 0,
     result |-> None, err |-> NoErr, sleeps |-> <<>>, raised |-> None,
     resolved |-> None, heard |-> None, timedOut |-> FALSE, waitEv |-> 0,
     ensured |-> FALSE]

\* a BleakClient that is not connected: no link, so no subscription on it
NewConn == [open |-> FALSE, sub |-> FALSE, hs |-> FALSE]

Init ==
    /\ client = 0
    /\ conns = [c \in ConnIds |-> NewConn]
    /\ height_mm = None
    /\ locked = None
    /\ height_event = 0
    /\ events = <<>>
    /\ height_callback = FALSE
    /\ lock_callback = FALSE
    /\ writes = <<>>
    /\ cbQueue = <<>>
    /\ tk = [t \in Tasks |-> IdleTask]
    /\ nCalls = 0
    /\ faults = MaxFaults
    /\ lastLock = None
    /\ codec = NoCall

\* is_connected testing only that self._client is set
is_connected_HandleOnly(cl, cs) == cl # 0

is_connected(cl, cs) == cl # 0 /\ cs[cl].open

Finished(r) == r.pc \in {"idle", "done", "failed"}

(***************************************************************************)
(* Command methods after ensure_connected() has returned.                  *)
(***************************************************************************)
\* one write_gatt_char call as the transport records it
WriteEntry(r, m, k, frame, cl, cs) ==
    [call |-> r.call, task_op |-> r.op, meth |-> m, idx |-> k,
     frame |-> frame, live |-> cs[cl].open, sub |-> cs[cl].sub]

\* ClearEvent making an event only when there is none: a set event is kept
ClearEvent_KeepSignaled ==
    IF height_event = 0
    THEN /\ events' = Append(events, FALSE)
         /\ height_event' = Len(events) + 1
    ELSE UNCHANGED <<height_event, events>>

\* get_height lines 168-172: keep an unset event, else make a fresh one
ClearEvent ==
    IF height_event = 0 \/ events[height_event]
    THEN /\ events' = Append(events, FALSE)
         /\ height_event' = Len(events) + 1
    ELSE UNCHANGED <<height_event, events>>

\* the record of writes when task t starts a call: the entries of the calls
\* that are still running (those of ended calls are dropped then)
Recorded(t) ==
    SelectSeq(writes, LAMBDA e :
       \E u \in Tasks \ {t} : tk[u].call = e.call /\ ~Finished(tk[u]))

\* connect() returned to ensure_connected() and that to method r.meth of task t;
\* cl and cs are self._client and the connections at that moment, w the
\* record of writes
AfterEnsure(t, r, cl, cs, w) ==
    LET r1 == [r EXCEPT !.ensured = TRUE] IN
    IF r.meth = "connect"
    THEN /\ tk' = [tk EXCEPT ![t] = [r1 EXCEPT !.pc = "done", !.target = 0]]
         /\ writes' = w
         /\ UNCHANGED <<height_event, events>>
    ELSE /\ IF r.meth = "get_height" THEN ClearEvent
            ELSE UNCHANGED <<height_event, events>>
         /\ writes' = Append(w,
               WriteEntry(r, r.meth, 1, Frames(r.meth, r.arg)[1], cl, cs))
         /\ tk' = [tk EXCEPT ![t] =
               [r1 EXCEPT !.pc = "write", !.step = 1, !.target = cl]]

\* ConnectRaise with ensure_connected() logging the error without raising it
\* again: the method goes on (and fails on self._client being None)
ConnectRaise_Swallowed(t, r, kind, cause, w) ==
    IF client = 0
    THEN /\ tk' = [tk EXCEPT ![t] =
               [r EXCEPT !.pc = "failed", !.target = 0,
                         !.err = [kind |-> "AttributeError", cause |-> None]]]
         /\ writes' = w
         /\ UNCHANGED <<height_event, events>>
    ELSE AfterEnsure(t, r, client, conns, w)

\* connect() raises: ensure_connected() logs and re-raises, the method ends
ConnectRaise(t, r, kind, cause, w) ==
    /\ tk' = [tk EXCEPT ![t] =
          [r EXCEPT !.pc = "failed", !.target = 0,
                    !.err = [kind |-> kind, cause |-> cause]]]
    /\ writes' = w
    /\ UNCHANGED <<height_event, events>>

(***************************************************************************)
(* connect()                                                               *)
(***************************************************************************)
\* ids for the BleakClient that task t creates: those of objects that are not
\* connected and not the receiver of another task's pending transport call
\* (a dead object that only self._client refers to is dropped by line 125)
FreeIds(t) ==
    {c \in ConnIds : /\ ~conns[c].open
                     /\ \A u \in Tasks \ {t} : tk[u].target # c}

\* lines 125-126: a new BleakClient becomes self._client and is opened
NewAttempt(t, r, n, w) ==
    /\ FreeIds(t) # {}
    /\ LET c == CHOOSE x \in FreeIds(t) : \A y \in FreeIds(t) : x <= y IN
       /\ client' = c
       /\ tk' = [tk EXCEPT ![t] =
             [r EXCEPT !.pc = "open", !.attempt = n, !.target = c]]
    /\ writes' = w
    /\ UNCHANGED <<conns, height_event, events>>

\* BeginConnect with the device resolved inside the retry loop: a device that
\* does not resolve costs the first attempt and its backoff
BeginConnect_ResolveInLoop(t, r, advertising, w) ==
    LET r0 == [r EXCEPT !.attempt = 0, !.last_err = None, !.sleeps = <<>>,
                        !.raised = None, !.resolved = None,
                        !.ensured = FALSE]
        r1 == [r0 EXCEPT !.resolved = Some(advertising)] IN
    IF is_connected(client, conns)
    THEN /\ AfterEnsure(t, r0, client, conns, w)
         /\ UNCHANGED <<client, conns>>
    ELSE IF ~advertising
         THEN /\ ConnectRaise(t, [r1 EXCEPT !.attempt = 1, !.sleeps = <<2>>],
                              "DeviceUnavailable", None, w)
              /\ UNCHANGED <<client, conns>>
         ELSE NewAttempt(t, r1, 1, w)

\* BeginConnect without the test of line 109: every call connects anew
BeginConnect_NoLiveTest(t, r, advertising, w) ==
    LET r0 == [r EXCEPT !.attempt = 0, !.last_err = None, !.sleeps = <<>>,
                        !.raised = None, !.resolved = None,
                        !.ensured = FALSE]
        r1 == [r0 EXCEPT !.resolved = Some(advertising)] IN
    IF ~advertising
    THEN /\ ConnectRaise(t, r1, "DeviceUnavailable", None, w)
         /\ UNCHANGED <<client, conns>>
    ELSE NewAttempt(t, r1, 1, w)

\* lines 108-120: entry of connect(), up to its first suspension; advertising
\* tells whether the device resolves from its address (lines 113-116)
BeginConnect(t, r, advertising, w) ==
    LET r0 == [r EXCEPT !.attempt = 0, !.last_err = None, !.sleeps = <<>>,
                        !.raised = None, !.resolved = None,
                        !.ensured = FALSE]
        r1 == [r0 EXCEPT !.resolved = Some(advertising)] IN
    IF is_connected(client, conns)
    THEN /\ AfterEnsure(t, r0, client, conns, w)
         /\ UNCHANGED <<client, conns>>
    ELSE IF ~advertising
         THEN /\ ConnectRaise(t, r1, "DeviceUnavailable", None, w)
              /\ UNCHANGED <<client, conns>>
         ELSE NewAttempt(t, r1, 1, w)

\* Except with exponential backoff: sleep(2 ** attempt)
Except_Exponential(t, r, err) ==
    /\ tk' = [tk EXCEPT ![t] =
          [r EXCEPT !.pc = "backoff", !.target = 0,
                    !.raised = Some(err),
                    !.last_err = Some(err),
                    !.sleeps = Append(r.sleeps, 2 ^ r.attempt)]]
    /\ UNCHANGED <<client, conns, writes, height_event, events>>

\* lines 137-141: the transport call of the given stage raised err; the
\* except clause runs, up to the sleep
Except(t, r, err) ==
    /\ tk' = [tk EXCEPT ![t] =
          [r EXCEPT !.pc = "backoff", !.target = 0,
                    !.raised = Some(err),
                    !.last_err = Some(err),
                    !.sleeps = Append(r.sleeps, 2 * r.attempt)]]
    /\ UNCHANGED <<client, conns, writes, height_event, events>>

Env == <<height_mm, locked, height_callback, lock_callback,
         cbQueue, lastLock, codec>>

\* a transport call on connection c ends in an error: it must when the link is
\* down, and may otherwise
Fault(c) ==
    IF conns[c].open
    THEN faults > 0 /\ faults' = faults - 1
    ELSE UNCHANGED faults

Start(t, m, a, advertising) ==
    /\ Finished(tk[t])
    /\ nCalls < MaxCalls
    /\ m # "disconnect"
    /\ nCalls' = nCalls + 1
    /\ BeginConnect(t, [IdleTask EXCEPT !.op = m, !.meth = m, !.arg = a,
                                        !.call = nCalls + 1], advertising,
                    Recorded(t))
    /\ UNCHANGED <<Env, faults>>

\* BleakClient.connect() returned; line 129 calls start_notify on self._client
OpenDone(t) ==
    /\ tk[t].pc = "open"
    /\ conns' = [conns EXCEPT ![tk[t].target].open = TRUE]
    /\ tk' = [tk EXCEPT ![t].pc = "subscribe", ![t].target = client]
    /\ UNCHANGED <<client, writes, height_event, events, Env, nCalls, faults>>

OpenFail(t) ==
    /\ tk[t].pc = "open"
    /\ faults > 0
    /\ faults' = faults - 1
    /\ Except(t, tk[t], <<"open", tk[t].attempt>>)
    /\ UNCHANGED <<Env, nCalls>>

\* start_notify returned; line 132 writes the handshake frame to self._client
SubscribeDone(t) ==
    /\ tk[t].pc = "subscribe"
    /\ conns[tk[t].target].open
    /\ conns' = [conns EXCEPT ![tk[t].target].sub = TRUE]
    /\ writes' = Append(writes,
          WriteEntry(tk[t], "connect", 0, CONNECT_FRAME, client, conns'))
    /\ tk' = [tk EXCEPT ![t].pc = "handshake", ![t].target = client]
    /\ UNCHANGED <<client, height_event, events, Env, nCalls, faults>>

SubscribeFail(t) ==
    /\ tk[t].pc = "subscribe"
    /\ Fault(tk[t].target)
    /\ Except(t, tk[t], <<"subscribe", tk[t].attempt>>)
    /\ UNCHANGED <<Env, nCalls>>

\* the handshake write returned; connect() returns (line 136)
HandshakeDone(t) ==
    /\ tk[t].pc = "handshake"
    /\ conns[tk[t].target].open
    /\ conns' = [conns EXCEPT ![tk[t].target].hs = TRUE]
    /\ AfterEnsure(t, tk[t], client, conns', writes)
    /\ UNCHANGED <<client, Env, nCalls, faults>>

HandshakeFail(t) ==
    /\ tk[t].pc = "handshake"
    /\ Fault(tk[t].target)
    /\ Except(t, tk[t], <<"handshake", tk[t].attempt>>)
    /\ UNCHANGED <<Env, nCalls>>

\* BackoffDone with the loop running range(1, 5)
BackoffDone_FourAttempts(t) ==
    /\ tk[t].pc = "backoff"
    /\ IF tk[t].attempt < 4
       THEN NewAttempt(t, tk[t], tk[t].attempt + 1, writes)
       ELSE /\ ConnectRaise(t, tk[t], "ConnectionFailed", tk[t].last_err,
                            writes)
            /\ UNCHANGED <<client, conns>>
    /\ UNCHANGED <<Env, nCalls, faults>>

\* the sleep of line 141 is over: next round of the loop, or line 144
BackoffDone(t) ==
    /\ tk[t].pc = "backoff"
    /\ IF tk[t].attempt < 3
       THEN NewAttempt(t, tk[t], tk[t].attempt + 1, writes)
       ELSE /\ ConnectRaise(t, tk[t], "ConnectionFailed", tk[t].last_err,
                            writes)
            /\ UNCHANGED <<client, conns>>
    /\ UNCHANGED <<Env, nCalls, faults>>

(***************************************************************************)
(* Command methods: frame writes, set_height_mm, get_height, disconnect.   *)
(***************************************************************************)
\* the method of task t returns normally with value v
Return(t, v) ==
    tk' = [tk EXCEPT ![t].pc = "done", ![t].result = v, ![t].target = 0,
                     ![t].step = 0, ![t].waitEv = 0]

\* WriteDone with lock() and unlock() setting the cached flag themselves when
\* their frame is written
WriteDone_OptimisticLock(t) ==
    LET r == tk[t]
        frames == Frames(r.meth, r.arg) IN
    /\ r.pc = "write"
    /\ conns[r.target].open
    /\ IF r.step < Len(frames)
       THEN /\ writes' = Append(writes,
                  WriteEntry(r, r.meth, r.step + 1, frames[r.step + 1],
                             client, conns))
            /\ tk' = [tk EXCEPT ![t].step = r.step + 1, ![t].target = client]
       ELSE /\ UNCHANGED writes
            /\ IF r.meth = "get_height"
               THEN tk' = [tk EXCEPT ![t].pc = "gh_wait", ![t].target = 0,
                                     ![t].waitEv = height_event,
                                     ![t].heard = None,
                                     ![t].timedOut = FALSE]
               ELSE IF r.meth = "set_height_mm"
                    THEN tk' = [tk EXCEPT ![t].pc = "delay", ![t].target = 0]
                    ELSE Return(t, None)
    /\ locked' = IF r.meth = "lock" THEN Some(TRUE)
                 ELSE IF r.meth = "unlock" THEN Some(FALSE)
                 ELSE locked
    /\ UNCHANGED <<client, conns, height_event, events, height_mm,
                   height_callback, lock_callback, cbQueue, lastLock, codec,
                   nCalls, faults>>

\* a write_gatt_char call returned: the method's next statement runs
WriteDone(t) ==
    LET r == tk[t]
        frames == Frames(r.meth, r.arg) IN
    /\ r.pc = "write"
    /\ conns[r.target].open
    /\ IF r.step < Len(frames)
       THEN /\ writes' = Append(writes,
                  WriteEntry(r, r.meth, r.step + 1, frames[r.step + 1],
                             client, conns))
            /\ tk' = [tk EXCEPT ![t].step = r.step + 1, ![t].target = client]
       ELSE /\ UNCHANGED writes
            /\ IF r.meth = "get_height"
               THEN \* line 179: wait on self._height_event, with the timeout
                    tk' = [tk EXCEPT ![t].pc = "gh_wait", ![t].target = 0,
                                     ![t].waitEv = height_event,
                                     ![t].heard = None,
                                     ![t].timedOut = FALSE]
               ELSE IF r.meth = "set_height_mm"
                    THEN \* line 202: asyncio.sleep(0.2)
                         tk' = [tk EXCEPT ![t].pc = "delay", ![t].target = 0]
                    ELSE Return(t, None)
    /\ UNCHANGED <<client, conns, height_event, events, Env, nCalls, faults>>

\* a write_gatt_char call raised: the error leaves the method uncaught
WriteFail(t) ==
    /\ tk[t].pc = "write"
    /\ Fault(tk[t].target)
    /\ tk' = [tk EXCEPT ![t].pc = "failed", ![t].target = 0, ![t].step = 0,
                        ![t].err = [kind |-> "TransportWriteFailed",
                                    cause |-> None]]
    /\ UNCHANGED <<client, conns, writes, height_event, events, Env, nCalls>>

\* line 203: set_height_mm calls get_height() after its delay
DelayDone(t, advertising) ==
    /\ tk[t].pc = "delay"
    /\ BeginConnect(t, [tk[t] EXCEPT !.meth = "get_height"], advertising,
                    writes)
    /\ UNCHANGED <<Env, nCalls, faults>>

\* what the method that task t runs returns when get_height returns h
GetHeightResult(t, h) == IF tk[t].op = "get_height" THEN h ELSE None

\* line 179 ends because the event is set; line 182
GetHeightWake(t) ==
    /\ tk[t].pc = "gh_wait"
    /\ events[tk[t].waitEv]
    /\ Return(t, GetHeightResult(t, height_mm))
    /\ UNCHANGED <<client, conns, writes, height_event, events, Env, nCalls,
                   faults>>

\* GetHeightTimeout with the TimeoutError not caught
GetHeightTimeout_Raises(t) ==
    /\ tk[t].pc = "gh_wait"
    /\ ~events[tk[t].waitEv]
    /\ tk' = [tk EXCEPT ![t].pc = "failed", ![t].target = 0, ![t].step = 0,
                        ![t].waitEv = 0, ![t].timedOut = TRUE,
                        ![t].err = [kind |-> "TimeoutError", cause |-> None]]
    /\ UNCHANGED <<client, conns, writes, height_event, events, Env, nCalls,
                   faults>>

\* GetHeightTimeout for a wait without a timeout: it never expires
GetHeightTimeout_Never(t) ==
    /\ tk[t].pc = "gh_wait"
    /\ FALSE
    /\ UNCHANGED vars

\* lines 180-182: the timeout expires with the event unset
GetHeightTimeout(t) ==
    /\ tk[t].pc = "gh_wait"
    /\ ~events[tk[t].waitEv]
    /\ tk' = [tk EXCEPT ![t].pc = "done", ![t].target = 0, ![t].step = 0,
                        ![t].waitEv = 0, ![t].timedOut = TRUE,
                        ![t].result = GetHeightResult(t, height_mm)]
    /\ UNCHANGED <<client, conns, writes, height_event, events, Env, nCalls,
                   faults>>

\* lines 146-148: disconnect() up to the transport's disconnect call; it
\* writes no frame and is not counted in nCalls, and a task does not call it
\* twice in a row
Disconnect(t) ==
    /\ Finished(tk[t])
    /\ tk[t].op # "disconnect"
    /\ UNCHANGED nCalls
    /\ LET r == [IdleTask EXCEPT !.op = "disconnect",
                                 !.meth = "disconnect"] IN
       IF is_connected(client, conns)
       THEN tk' = [tk EXCEPT ![t] = [r EXCEPT !.pc = "closing",
                                              !.target = client]]
       ELSE tk' = [tk EXCEPT ![t] = [r EXCEPT !.pc = "done"]]
    /\ writes' = Recorded(t)
    /\ UNCHANGED <<client, conns, height_event, events, Env, faults>>

\* the transport's disconnect returned: the link and its subscription are gone
CloseDone(t) ==
    /\ tk[t].pc = "closing"
    /\ conns' = [conns EXCEPT ![tk[t].target] = NewConn]
    /\ Return(t, None)
    /\ UNCHANGED <<client, writes, height_event, events, Env, nCalls, faults>>

(***************************************************************************)
(* Notification handler and callbacks.                                     *)
(***************************************************************************)
\* LockPart without the comparison with the cached flag
LockPart_AlwaysFire(data, q) ==
    IF is_lock_frame(data)
    THEN LET flag == locked_flag(data) IN
         /\ lastLock' = Some(flag)
         /\ locked' = Some(flag)
         /\ cbQueue' = IF lock_callback
                       THEN Append(q, <<"lock", flag>>)
                       ELSE q
    ELSE /\ UNCHANGED <<locked, lastLock>>
         /\ cbQueue' = q

\* lines 282-295: the lock part; q is the callback queue after lines 267-277
LockPart(data, q) ==
    IF is_lock_frame(data)
    THEN LET flag == locked_flag(data) IN
         /\ lastLock' = Some(flag)
         /\ IF locked # Some(flag)
            THEN /\ locked' = Some(flag)
                 /\ cbQueue' = IF lock_callback
                               THEN Append(q, <<"lock", flag>>)
                               ELSE q
            ELSE /\ UNCHANGED locked
                 /\ cbQueue' = q
    ELSE /\ UNCHANGED <<locked, lastLock>>
         /\ cbQueue' = q

\* handle_notify with the test of line 271 inverted: the event is never set
handle_notify_NoSignal(data) ==
    LET height == decode_height(data)
        q1 == IF height # None /\ height_callback
              THEN Append(cbQueue, <<"height", height[1]>>)
              ELSE cbQueue IN
    /\ IF height # None
       THEN /\ height_mm' = height
            /\ UNCHANGED events
       ELSE UNCHANGED <<height_mm, events>>
    /\ LockPart(data, q1)
    /\ tk' = [t \in Tasks |->
               IF tk[t].pc = "gh_wait" /\ height # None
               THEN [tk[t] EXCEPT !.heard = height]
               ELSE tk[t]]

\* handle_notify scheduling the height callback only when the height changes,
\* as the lock part does
handle_notify_CallbackOnChange(data) ==
    LET height == decode_height(data)
        q1 == IF height # None /\ height_callback /\ height # height_mm
              THEN Append(cbQueue, <<"height", height[1]>>)
              ELSE cbQueue IN
    /\ IF height # None
       THEN /\ height_mm' = height
            /\ IF height_event # 0 /\ ~events[height_event]
               THEN events' = [events EXCEPT ![height_event] = TRUE]
               ELSE UNCHANGED events
       ELSE UNCHANGED <<height_mm, events>>
    /\ LockPart(data, q1)
    /\ tk' = [t \in Tasks |->
               IF tk[t].pc = "gh_wait" /\ height # None
               THEN [tk[t] EXCEPT !.heard = height]
               ELSE tk[t]]

\* _handle_notify(data), called by the transport for a subscribed connection
handle_notify(data) ==
    LET height == decode_height(data)
        q1 == IF height # None /\ height_callback
              THEN Append(cbQueue, <<"height", height[1]>>)
              ELSE cbQueue IN
    /\ IF height # None
       THEN /\ height_mm' = height
            /\ IF height_event # 0 /\ ~events[height_event]
               THEN events' = [events EXCEPT ![height_event] = TRUE]
               ELSE UNCHANGED events
       ELSE UNCHANGED <<height_mm, events>>
    /\ LockPart(data, q1)
    /\ tk' = [t \in Tasks |->
               IF tk[t].pc = "gh_wait" /\ height # None
               THEN [tk[t] EXCEPT !.heard = height]
               ELSE tk[t]]

Notify(c, data) ==
    /\ conns[c].open
    /\ conns[c].sub
    /\ handle_notify(data)
    /\ Len(cbQueue') <= MaxQueue
    /\ UNCHANGED <<client, conns, height_event, height_callback,
                   lock_callback, writes, nCalls, faults, codec>>

\* the loop runs a scheduled callback
RunCallback ==
    /\ cbQueue # <<>>
    /\ cbQueue' = Tail(cbQueue)
    /\ UNCHANGED <<client, conns, height_mm, locked, height_event,
                   events, height_callback, lock_callback, writes, tk, nCalls,
                   faults, lastLock, codec>>

set_height_callback ==
    /\ ~height_callback
    /\ height_callback' = TRUE
    /\ UNCHANGED <<client, conns, height_mm, locked, height_event,
                   events, lock_callback, writes, cbQueue, tk, nCalls,
                   faults, lastLock, codec>>

set_lock_callback ==
    /\ ~lock_callback
    /\ lock_callback' = TRUE
    /\ UNCHANGED <<client, conns, height_mm, locked, height_event,
                   events, height_callback, writes, cbQueue, tk, nCalls,
                   faults, lastLock, codec>>

(***************************************************************************)
(* Environment: the radio link.                                            *)
(***************************************************************************)
LinkLoss(c) ==
    /\ conns[c].open
    /\ faults > 0
    /\ faults' = faults - 1
    /\ conns' = [conns EXCEPT ![c] = NewConn]
    /\ UNCHANGED <<client, height_mm, locked, height_event,
                   events, height_callback, lock_callback, writes, cbQueue, tk,
                   nCalls, lastLock, codec>>

(***************************************************************************)
(* Specifications.                                                         *)
(*   Spec        one caller at a time runs every method of the session,    *)
(*               with transport errors, link loss and height notifications *)
(*   SpecConc    concurrent callers run the methods of ConcMethods         *)
(*   SpecNotify  a connected session receives the buffers of NotifyPackets *)
(*               with callbacks registered                                 *)
(***************************************************************************)
\* the steps of a method call of task t, transport errors included
Run(t) ==
    \/ OpenDone(t)
    \/ OpenFail(t)
    \/ SubscribeDone(t)
    \/ SubscribeFail(t)
    \/ HandshakeDone(t)
    \/ HandshakeFail(t)
    \/ BackoffDone(t)
    \/ WriteDone(t)
    \/ WriteFail(t)
    \/ \E adv \in BOOLEAN : DelayDone(t, adv)
    \/ GetHeightWake(t)
    \/ GetHeightTimeout(t)
    \/ CloseDone(t)

Next ==
    \/ \E m \in Methods \ {"disconnect", "set_height_mm"}, adv \in BOOLEAN :
          Start(1, m, 0, adv)
    \/ \E a \in TargetsMm, adv \in BOOLEAN : Start(1, "set_height_mm", a, adv)
    \/ Disconnect(1)
    \/ Run(1)
    \/ \E c \in ConnIds, data \in SessionPackets : Notify(c, data)
    \/ \E c \in ConnIds : LinkLoss(c)

Spec == Init /\ [][Next]_vars

\* Spec with every transport call, sleep and wait of the caller coming to
\* an end: a step of the running method is taken when one stays possible
SpecLive == Spec /\ WF_vars(Run(1))

\* the buffers a session running the methods is notified: the heights of
\* SessionPackets and the lock-state frames for locked and unlocked
CachePackets ==
    SessionPackets \cup { <<242, 242, 31, 1, 1, 0, 126>>,
                          <<242, 242, 31, 1, 0, 0, 126>> }

\* Next with the notifications of CachePackets
NextCache ==
    \/ \E m \in Methods \ {"disconnect", "set_height_mm"}, adv \in BOOLEAN :
          Start(1, m, 0, adv)
    \/ \E a \in TargetsMm, adv \in BOOLEAN : Start(1, "set_height_mm", a, adv)
    \/ Disconnect(1)
    \/ Run(1)
    \/ \E c \in ConnIds, data \in CachePackets : Notify(c, data)
    \/ \E c \in ConnIds : LinkLoss(c)

\* one caller at a time runs every method while the device reports heights
\* and lock states
SpecCache == Init /\ [][NextCache]_vars

\* the methods that concurrent callers run, and the buffer they are notified
ConcMethods == {"connect", "get_height", "save_sit_preset"}
ConcPackets == { <<241, 241, 7, 2, 10, 0, 19, 126>> }

NextConc ==
    \/ \E t \in Tasks, m \in ConcMethods, adv \in BOOLEAN : Start(t, m, 0, adv)
    \/ \E t \in Tasks : OpenDone(t)
    \/ \E t \in Tasks : OpenFail(t)
    \/ \E t \in Tasks : SubscribeDone(t)
    \/ \E t \in Tasks : SubscribeFail(t)
    \/ \E t \in Tasks : HandshakeDone(t)
    \/ \E t \in Tasks : HandshakeFail(t)
    \/ \E t \in Tasks : BackoffDone(t)
    \/ \E t \in Tasks : WriteDone(t)
    \/ \E t \in Tasks : WriteFail(t)
    \/ \E t \in Tasks : GetHeightWake(t)
    \/ \E t \in Tasks : GetHeightTimeout(t)
    \/ \E c \in ConnIds, data \in ConcPackets : Notify(c, data)
    \/ \E c \in ConnIds : LinkLoss(c)

InitConc ==
    /\ client = 0
    /\ conns = [c \in ConnIds |-> NewConn]
    /\ height_mm = None
    /\ locked = None
    /\ height_event = 0
    /\ events = <<>>
    /\ height_callback = FALSE
    /\ lock_callback = FALSE
    /\ writes = <<>>
    /\ cbQueue = <<>>
    /\ tk = [t \in Tasks |-> IdleTask]
    /\ nCalls = 0
    /\ faults = MaxFaultsConc
    /\ lastLock = None
    /\ codec = NoCall

SpecConc == InitConc /\ [][NextConc]_vars

(***************************************************************************)
(* Notification buffers: the heads of the two height variants and of the   *)
(* lock-state frame, with a declared length of 1 or 3, cut to 6 bytes or   *)
(* complete (7 bytes), ending in the terminator or in another byte; and    *)
(* the buffers of SessionPackets.                                          *)
(***************************************************************************)
PktHeads == {<<241, 241, 7>>, <<242, 242, 1>>, <<242, 242, 31>>}
PktLengths == {1, 3}
PktPayload0 == {0, 1}
PktLast == {END_BYTE, 0}

NotifyPackets ==
    LET Heads == {h \o <<n, p>> : h \in PktHeads, n \in PktLengths,
                                  p \in PktPayload0}
        Tails == {<<0>>} \cup {<<0, z>> : z \in PktLast}
    IN  {h \o x : h \in Heads, x \in Tails} \cup SessionPackets

InitNotify ==
    /\ client = 0
    /\ conns = [c \in ConnIds |-> NewConn]
    /\ height_mm = None
    /\ locked = None
    /\ height_event = 0
    /\ events = <<>>
    /\ height_callback = FALSE
    /\ lock_callback = FALSE
    /\ writes = <<>>
    /\ cbQueue = <<>>
    /\ tk = [t \in Tasks |-> IdleTask]
    /\ nCalls = 0
    /\ faults = 0
    /\ lastLock = None
    /\ codec = NoCall

NextNotify ==
    \/ Start(1, "get_height", 0, TRUE)
    \/ OpenDone(1)
    \/ SubscribeDone(1)
    \/ HandshakeDone(1)
    \/ WriteDone(1)
    \/ GetHeightWake(1)
    \/ GetHeightTimeout(1)
    \/ \E c \in ConnIds, data \in NotifyPackets : Notify(c, data)
    \/ RunCallback
    \/ set_height_callback
    \/ set_lock_callback

SpecNotify == InitNotify /\ [][NextNotify]_vars

(***************************************************************************)
(* The codec functions on their own: a call of make_frame with a command   *)
(* byte of EncCommands and a payload of at most MaxPayloadLen bytes of     *)
(* EncBytes, a call of decode_height with a buffer of DecodePackets, or    *)
(* the lock-state test of _handle_notify on a buffer of LockPackets.        *)
(***************************************************************************)
EncCommands == {0, 1, 2, 7, 27, 31, 43, 254, 255}
EncBytes == {0, 1, 218, 255}
EncPayloads == UNION {[1..n -> EncBytes] : n \in 0..MaxPayloadLen}

DecHeaderBytes == {241, 242}
DecCommands == {1, 7, 21, 31}
DecLengths == {1, 2, 3}
DecPayload0 == {0, 1, 2, 10}
DecPayload1 == {0, 44, 238}
DecTails == {<<>>, <<126>>, <<0>>, <<0, 244, 126>>}

DecodePackets ==
    {<<h1, h2, c, n, p, q>> \o x :
        h1 \in DecHeaderBytes, h2 \in DecHeaderBytes, c \in DecCommands,
        n \in DecLengths, p \in DecPayload0, q \in DecPayload1,
        x \in DecTails}
    \cup SessionPackets

\* the buffers of DecodePackets, and their first 5 bytes
LockPackets == DecodePackets \cup {SubSeq(d, 1, 5) : d \in DecodePackets}

CodecCalls ==
    {[fn |-> "make_frame", args |-> <<c, p>>, result |-> None] :
        c \in EncCommands, p \in EncPayloads}
    \cup {[fn |-> "decode_height", args |-> <<d>>, result |-> None] :
             d \in DecodePackets}
    \cup {[fn |-> "lock_state", args |-> <<d>>, result |-> None] :
             d \in LockPackets}

InitCodec ==
    /\ client = 0
    /\ conns = [c \in ConnIds |-> NewConn]
    /\ height_mm = None
    /\ locked = None
    /\ height_event = 0
    /\ events = <<>>
    /\ height_callback = FALSE
    /\ lock_callback = FALSE
    /\ writes = <<>>
    /\ cbQueue = <<>>
    /\ tk = [t \in Tasks |-> IdleTask]
    /\ nCalls = 0
    /\ faults = 0
    /\ lastLock = None
    /\ codec \in CodecCalls

\* make_frame(cmd, payload) returns
CallMakeFrame ==
    /\ codec.fn = "make_frame"
    /\ codec.result = None
    /\ codec' = [codec EXCEPT
                   !.result = Some(make_frame(codec.args[1], codec.args[2]))]
    /\ UNCHANGED <<client, conns, height_mm, locked, height_event, events,
                   height_callback, lock_callback, writes, cbQueue, tk,
                   nCalls, faults, lastLock>>

\* decode_height(packet) returns
CallDecodeHeight ==
    /\ codec.fn = "decode_height"
    /\ codec.result = None
    /\ codec' = [codec EXCEPT !.result = Some(decode_height(codec.args[1]))]
    /\ UNCHANGED <<client, conns, height_mm, locked, height_event, events,
                   height_callback, lock_callback, writes, cbQueue, tk,
                   nCalls, faults, lastLock>>

\* lines 282-289 of _handle_notify run on a buffer: the locked flag of a
\* buffer that passes the lock-state test
CallLockTest ==
    /\ codec.fn = "lock_state"
    /\ codec.result = None
    /\ codec' = [codec EXCEPT
                   !.result = Some(IF is_lock_frame(codec.args[1])
                                   THEN Some(locked_flag(codec.args[1]))
                                   ELSE None)]
    /\ UNCHANGED <<client, conns, height_mm, locked, height_event, events,
                   height_callback, lock_callback, writes, cbQueue, tk,
                   nCalls, faults, lastLock>>

NextCodec ==
    \/ CallMakeFrame
    \/ CallDecodeHeight
    \/ CallLockTest

SpecCodec == InitCodec /\ [][NextCodec]_vars

(***************************************************************************)
(* Properties.                                                             *)
(***************************************************************************)
\* the recorded writes of the method that record r runs
Own(r) == {i \in DOMAIN writes :
              writes[i].call = r.call /\ writes[i].meth = r.meth}

\* connect() could not establish the connection for the method of record r
ConnectGaveUp(r) ==
    \/ r.resolved = Some(FALSE)
    \/ Len(r.sleeps) = 3 /\ r.pc # "backoff"

ConnectErrors == {"DeviceUnavailable", "ConnectionFailed"}

\* C1: a connect() call never starts a 4th attempt; when its 3 attempts have
\* failed it ends with ConnectionFailed, and ConnectionFailed is raised only
\* then and carries the error of the 3rd attempt
C1_ConnectExhaustion ==
    \A t \in Tasks :
       LET r == tk[t] IN
       /\ r.attempt \in 0..3
       /\ Len(r.sleeps) <= 3
       /\ Len(r.sleeps) = 3 /\ r.pc # "backoff" =>
             r.pc = "failed" /\ r.err.kind = "ConnectionFailed"
       /\ r.err.kind = "ConnectionFailed" =>
             /\ r.pc = "failed"
             /\ r.attempt = 3
             /\ Len(r.sleeps) = 3
             /\ r.err.cause = r.raised
             /\ r.raised # None
             /\ r.raised[1][2] = 3

C1_Witness ==
    \E t \in Tasks : tk[t].err.kind = "ConnectionFailed"

\* C2: the waits of a connect() call are 2, 4, 6: one wait of 2*n after failed
\* attempt n and none else; a call that succeeds on its 3rd attempt has
\* waited 2 + 4 = 6 and makes no further attempt or wait
C2_LinearBackoff ==
    \A t \in Tasks :
       LET r == tk[t] IN
       /\ \A i \in DOMAIN r.sleeps : r.sleeps[i] = 2 * i
       /\ r.pc = "backoff" => Len(r.sleeps) = r.attempt
       /\ r.pc \in {"open", "subscribe", "handshake"} =>
             Len(r.sleeps) = r.attempt - 1
       /\ r.ensured /\ r.attempt >= 1 => Len(r.sleeps) = r.attempt - 1
       /\ r.ensured /\ r.attempt = 3 =>
             r.sleeps = <<2, 4>> /\ sum(r.sleeps) = 6

C2_Witness ==
    \E t \in Tasks :
       tk[t].op = "connect" /\ tk[t].pc = "done" /\ tk[t].attempt = 3

\* C3: a command method writes a frame only after its ensure_connected() has
\* returned; when connect() gives up, the method ends with that error and has
\* written no frame
C3_EnsureConnectedFirst ==
    \A t \in Tasks :
       LET r == tk[t] IN
       r.meth \in Commands =>
          /\ Own(r) # {} => r.ensured
          /\ ConnectGaveUp(r) =>
                /\ r.pc = "failed"
                /\ r.err.kind \in ConnectErrors
                /\ Own(r) = {}

C3_Witness ==
    \E t \in Tasks :
       /\ tk[t].op = "save_sit_preset"
       /\ tk[t].pc = "failed"
       /\ tk[t].err.kind = "ConnectionFailed"

\* C4: once a height notification has been delivered during the wait of a
\* get_height call, the waited event is set, so the call returns by the event
\* and not by the timeout, and it returns the height of the latest
\* notification of that wait
C4_HeightQueryCorrelation ==
    \A t \in Tasks :
       LET r == tk[t] IN
       /\ r.pc = "gh_wait" /\ r.heard # None => events[r.waitEv]
       /\ r.pc = "done" /\ r.meth = "get_height" /\ r.heard # None =>
             /\ ~r.timedOut
             /\ r.op = "get_height" => r.result = r.heard

C4_Witness ==
    \E t \in Tasks :
       /\ tk[t].op = "get_height"
       /\ tk[t].pc = "done"
       /\ tk[t].heard # None
       /\ tk[t].result = tk[t].heard

\* C5: the step in which get_height times out ends the call normally with the
\* cached height as result and changes neither the connection nor the cached
\* height and lock values
C5_TimeoutReturnsCached ==
    [][\A t \in Tasks :
          tk[t].pc = "gh_wait" /\ tk'[t].timedOut =>
             /\ tk'[t].pc = "done"
             /\ tk'[t].err = NoErr
             /\ tk[t].op = "get_height" => tk'[t].result = height_mm
             /\ client' = client
             /\ conns' = conns
             /\ height_mm' = height_mm
             /\ locked' = locked]_vars

C5_Witness ==
    \E t \in Tasks :
       /\ tk[t].op = "get_height"
       /\ tk[t].pc = "done"
       /\ tk[t].timedOut
       /\ tk[t].result # None

PrimedMethods == {"save_sit_preset", "save_stand_preset", "set_height_mm"}

\* the command byte of the payload frame of a primed method
PayloadCommand(m) ==
    CASE m = "save_sit_preset" -> 2
      [] m = "save_stand_preset" -> 43
      [] m = "set_height_mm" -> 27

\* C6: in the recorded writes, a frame of save_sit_preset, save_stand_preset
\* or set_height_mm is the priming frame (command 0) or the method's payload
\* frame, and a payload frame has the priming frame of the same call before it
C6_PrimingBeforePayload ==
    \A i \in DOMAIN writes :
       LET e == writes[i] IN
       e.meth \in PrimedMethods =>
          \/ e.frame[3] = 0
          \/ /\ e.frame[3] = PayloadCommand(e.meth)
             /\ \E j \in 1..(i - 1) :
                   /\ writes[j].call = e.call
                   /\ writes[j].meth = e.meth
                   /\ writes[j].frame[3] = 0

C6_Witness ==
    \E i \in DOMAIN writes :
       /\ writes[i].meth = "save_stand_preset"
       /\ writes[i].frame[3] = 43

\* C7: a connection is subscribed only when open and sent the handshake only
\* when subscribed, and no handshake frame is written to a live connection
\* that has no notification subscription
C7_SubscribeBeforeHandshake ==
    /\ \A c \in ConnIds :
          /\ conns[c].sub => conns[c].open
          /\ conns[c].hs => conns[c].sub
    /\ \A i \in DOMAIN writes :
          writes[i].meth = "connect" /\ writes[i].live => writes[i].sub

\* C8: when the device does not resolve, connect() fails with
\* DeviceUnavailable at once: no attempt, no wait, no transport error; and
\* DeviceUnavailable is raised only then
C8_DeviceUnavailableImmediate ==
    \A t \in Tasks :
       LET r == tk[t] IN
       /\ r.resolved = Some(FALSE) =>
             /\ r.pc = "failed"
             /\ r.err.kind = "DeviceUnavailable"
             /\ r.attempt = 0
             /\ r.sleeps = <<>>
             /\ r.raised = None
       /\ r.err.kind = "DeviceUnavailable" => r.resolved = Some(FALSE)

C8_Witness ==
    \E t \in Tasks : tk[t].err.kind = "DeviceUnavailable"

\* a buffer that decode must not interpret: short or without the terminator
Malformed(data) == Len(data) < 7 \/ data[Len(data)] # END_BYTE

\* C9: a notification with a buffer shorter than 7 bytes or not ending in
\* 0x7E changes neither cached value, sets no event and schedules no callback
\* (every step either leaves these unchanged or is no notification of a
\* malformed buffer)
C9_MalformedIgnored ==
    [][\/ UNCHANGED <<height_mm, locked, cbQueue, events>>
       \/ \A c \in ConnIds, data \in NotifyPackets :
             Malformed(data) => ~Notify(c, data)]_vars

\* the lock-update callbacks in queue q
LockCallbacks(q) == SelectSeq(q, LAMBDA x : x[1] = "lock")

\* the effect of a notification of data on the cached lock flag and on the
\* scheduled lock callbacks
LockEffect(data) ==
    IF is_lock_frame(data)
    THEN /\ locked' = Some(locked_flag(data))
         /\ LockCallbacks(cbQueue') =
               IF locked # Some(locked_flag(data)) /\ lock_callback
               THEN Append(LockCallbacks(cbQueue),
                           <<"lock", locked_flag(data)>>)
               ELSE LockCallbacks(cbQueue)
    ELSE /\ locked' = locked
         /\ LockCallbacks(cbQueue') = LockCallbacks(cbQueue)

\* C10: a lock notification leaves the cached flag equal to its value; it
\* schedules the lock callback (once, when one is registered) exactly when
\* that value differs from the cached one; other notifications do neither
\* (every step has the lock effect of each buffer it is a notification of)
C10_LockChangeOnly ==
    /\ [](locked = lastLock)
    /\ [][\A data \in NotifyPackets :
             \/ LockEffect(data)
             \/ \A c \in ConnIds : ~Notify(c, data)]_vars

C10_Witness ==
    /\ locked = Some(FALSE)
    /\ lastLock = Some(FALSE)
    /\ LockCallbacks(cbQueue) = <<<<"lock", TRUE>>, <<"lock", FALSE>>>>

\* a buffer of at least 6 bytes with header F2F2 and command 0x1F
HasLockHead(data) ==
    Len(data) >= 6 /\ data[1] = 242 /\ data[2] = 242 /\ data[3] = 31

\* C11 (as amended): the lock-state test recognises a buffer, with payload
\* byte 0 giving the locked value (1 locked, else unlocked), exactly when the
\* buffer has at least 6 bytes, header F2F2, command 0x1F and a declared
\* length of 1
C11_LockFrameLengthOne ==
    codec.fn = "lock_state" /\ codec.result # None =>
       LET data == codec.args[1] IN
       codec.result[1] = IF HasLockHead(data) /\ data[4] = 1
                         THEN Some(data[5] = 1)
                         ELSE None

C11_Witness ==
    /\ codec.fn = "lock_state"
    /\ codec.args = <<<<242, 242, 31, 1, 1, 0, 126>>>>
    /\ codec.result = Some(Some(TRUE))

\* C11 (as claimed): every buffer of at least 6 bytes with header F2F2,
\* command 0x1F and a declared length >= 1 is recognised as a lock-state
\* frame, and no other buffer is
C11_LockFrameAnyLength ==
    codec.fn = "lock_state" /\ codec.result # None =>
       LET data == codec.args[1] IN
       codec.result[1] = IF HasLockHead(data) /\ data[4] >= 1
                         THEN Some(data[5] = 1)
                         ELSE None

\* a buffer of at least 7 bytes that ends in the terminator 0x7E
WellFormed(packet) == Len(packet) >= 7 /\ packet[Len(packet)] = 126

\* C12: decode_height of a buffer of at least 7 bytes ending in 0x7E with
\* header F1F1, command 0x07 or 0x15 and declared length >= 2 is the height
\* (payload[1] * 256 + payload[0]) * 10, whatever the value
C12_DecodeVariantA ==
    codec.fn = "decode_height" /\ codec.result # None =>
       LET packet == codec.args[1] IN
       /\ WellFormed(packet)
       /\ packet[1] = 241 /\ packet[2] = 241
       /\ packet[3] \in {7, 21}
       /\ packet[4] >= 2
       => codec.result[1] = Some((packet[6] * 256 + packet[5]) * 10)

C12_Witness ==
    /\ codec.fn = "decode_height"
    /\ codec.args = <<<<241, 241, 7, 2, 10, 0, 19, 126>>>>
    /\ codec.result = Some(Some(100))

\* C13: decode_height of a buffer of at least 7 bytes ending in 0x7E with
\* header F2F2, command 0x01 and declared length >= 3 is the height v * 10
\* when v < 300 and v when v >= 300, for v = payload[0] * 256 + payload[1]
C13_DecodeVariantB ==
    codec.fn = "decode_height" /\ codec.result # None =>
       LET packet == codec.args[1]
           v == packet[5] * 256 + packet[6] IN
       /\ WellFormed(packet)
       /\ packet[1] = 242 /\ packet[2] = 242
       /\ packet[3] = 1
       /\ packet[4] >= 3
       => /\ v < 300 => codec.result[1] = Some(v * 10)
          /\ v >= 300 => codec.result[1] = Some(v)

C13_Witness ==
    /\ codec.fn = "decode_height"
    /\ codec.args = <<<<242, 242, 1, 3, 2, 238, 0, 244, 126>>>>
    /\ codec.result = Some(Some(750))

\* C14: make_frame(cmd, payload) is 6 + len(payload) bytes: F1 F1, cmd,
\* len(payload), the payload, (cmd + len(payload) + sum(payload)) mod 256 and
\* 0x7E, so that command, length and payload are read back from the frame;
\* and the command frames of the module are these bytes
C14_EncodeLayout ==
    /\ codec.fn = "make_frame" /\ codec.result # None =>
          LET cmd == codec.args[1]
              payload == codec.args[2]
              frame == codec.result[1]
              n == Len(payload) IN
          /\ Len(frame) = 6 + n
          /\ frame[1] = 241 /\ frame[2] = 241
          /\ frame[3] = cmd
          /\ frame[4] = n
          /\ SubSeq(frame, 5, 4 + frame[4]) = payload
          /\ frame[5 + n] = (cmd + n + sum(payload)) % 256
          /\ frame[5 + n] \in 0..255
          /\ frame[6 + n] = 126
    /\ MOVE_UP = <<241, 241, 1, 0, 1, 126>>
    /\ MOVE_DOWN = <<241, 241, 2, 0, 2, 126>>
    /\ STOP = <<241, 241, 43, 0, 43, 126>>
    /\ CONNECT_FRAME = <<241, 241, 254, 0, 254, 126>>
    /\ QUERY_HEIGHT = <<241, 241, 7, 0, 7, 126>>
    /\ ZERO_FRAME = <<241, 241, 0, 0, 0, 126>>
    /\ SIT_PRESET = <<241, 241, 27, 2, 2, 218, 249, 126>>
    /\ STAND_PRESET = <<241, 241, 27, 2, 3, 6, 38, 126>>
    /\ LOCK_FRAME = <<241, 241, 31, 1, 1, 33, 126>>
    /\ UNLOCK_FRAME = LOCK_FRAME

C14_Witness ==
    /\ codec.fn = "make_frame"
    /\ codec.args = <<255, <<255, 218>>>>
    /\ codec.result = Some(<<241, 241, 255, 2, 255, 218, 218, 126>>)

\* the frames that the call of record r has written, in the order written,
\* with and without the handshake frames of its connect()
CallFrames(r) ==
    LET own == SelectSeq(writes, LAMBDA e : e.call = r.call) IN
    [i \in DOMAIN own |-> own[i].frame]

CommandFrames(r) ==
    SelectSeq(CallFrames(r), LAMBDA f : f # <<241, 241, 254, 0, 254, 126>>)

\* the set-height frame of a target of 0..65535: command 0x1B, payload high
\* byte then low byte
SetHeightFrame(target) ==
    LET high == target \div 256
        low == target % 256
    IN  <<241, 241, 27, 2, high, low, (27 + 2 + high + low) % 256, 126>>

IsPrefix(x, y) == Len(x) <= Len(y) /\ x = SubSeq(y, 1, Len(x))

\* C15: the frames of a set_height_mm(target) call, handshakes of a reconnect
\* apart, are written as priming frame, set-height frame with the big-endian
\* target, query-height frame; the set-height frame is the call's next write
\* after the priming frame; and the cached height changes only in a step
\* that is a notification
C15_SetHeightSequence ==
    /\ [](\A t \in Tasks :
            LET r == tk[t] IN
            r.op = "set_height_mm" =>
               /\ IsPrefix(CommandFrames(r),
                           << <<241, 241, 0, 0, 0, 126>>,
                              SetHeightFrame(r.arg),
                              <<241, 241, 7, 0, 7, 126>> >>)
               /\ \A i \in DOMAIN CallFrames(r) :
                     CallFrames(r)[i] = SetHeightFrame(r.arg) =>
                        i > 1 /\ CallFrames(r)[i - 1] = <<241, 241, 0, 0, 0, 126>>
               /\ r.pc = "done" => Len(CommandFrames(r)) = 3)
    /\ [][\/ height_mm' = height_mm
          \/ \E c \in ConnIds, data \in SessionPackets : Notify(c, data)]_vars

C15_Witness ==
    \E t \in Tasks :
       /\ tk[t].op = "set_height_mm"
       /\ tk[t].pc = "done"
       /\ tk[t].arg = 750
       /\ CommandFrames(tk[t]) = << <<241, 241, 0, 0, 0, 126>>,
                                    <<241, 241, 27, 2, 2, 238, 13, 126>>,
                                    <<241, 241, 7, 0, 7, 126>> >>

\* C16: the step in which connect() is called while the connection is live
\* ends the call at once, without error, device resolution or attempt, with
\* no frame written by the call, and leaves the connection handle, the
\* connections, the cached values and the wait handle unchanged
C16_ConnectNoOp ==
    [][\A t \in Tasks :
          /\ tk'[t].call # tk[t].call
          /\ tk'[t].op = "connect"
          /\ is_connected(client, conns)
          => /\ tk'[t].pc = "done"
             /\ tk'[t].err = NoErr
             /\ tk'[t].resolved = None
             /\ tk'[t].attempt = 0
             /\ tk'[t].sleeps = <<>>
             /\ \A i \in DOMAIN writes' : writes'[i].call # tk'[t].call
             /\ UNCHANGED <<client, conns, height_mm, locked, height_event,
                            events>>]_vars

C16_Witness ==
    \E t \in Tasks :
       /\ tk[t].op = "connect"
       /\ tk[t].pc = "done"
       /\ tk[t].call = 2
       /\ tk[t].attempt = 0
       /\ tk[t].resolved = None
       /\ is_connected(client, conns)

\* the handshake writes of the call of record r that came after every frame
\* of the call's earlier method and before every frame of its current method
Reconnects(r) ==
    {j \in DOMAIN writes :
        /\ writes[j].call = r.call
        /\ writes[j].meth = "connect"
        /\ \A i \in DOMAIN writes :
              writes[i].call = r.call /\ writes[i].meth # "connect" =>
                 IF writes[i].meth = r.meth THEN j < i ELSE i < j}

\* C17: a command method that finds the session disconnected writes its
\* frames only after a handshake of its own on a live, subscribed connection;
\* and the first frame of a command method is written to a live connection
C17_TransparentReconnect ==
    \A t \in Tasks :
       LET r == tk[t] IN
       r.meth \in Commands /\ Own(r) # {} =>
          /\ r.resolved # None =>
                \E j \in Reconnects(r) : writes[j].live /\ writes[j].sub
          /\ \A i \in Own(r) :
                (\A k \in Own(r) : i <= k) => writes[i].live

\* a second call that needed one connect attempt and has returned, with the
\* session connected and exactly one transport fault or link loss so far:
\* the first call had connected, so the link was lost or closed in between
C17_Witness ==
    \E t \in Tasks :
       /\ tk[t].op = "move_up"
       /\ tk[t].pc = "done"
       /\ tk[t].call = 2
       /\ tk[t].attempt = 1
       /\ Own(tk[t]) # {}
       /\ faults = MaxFaults - 1
       /\ is_connected(client, conns)

\* the height-update callbacks in queue q
HeightCallbacks(q) == SelectSeq(q, LAMBDA x : x[1] = "height")

\* the effect of a notification of data on the cached height, the wait
\* handle and the scheduled height callbacks
HeightEffect(data) ==
    LET height == decode_height(data) IN
    IF height # None
    THEN /\ height_mm' = height
         /\ events' = IF height_event # 0 /\ ~events[height_event]
                      THEN [events EXCEPT ![height_event] = TRUE]
                      ELSE events
         /\ HeightCallbacks(cbQueue') =
               IF height_callback
               THEN Append(HeightCallbacks(cbQueue), <<"height", height[1]>>)
               ELSE HeightCallbacks(cbQueue)
    ELSE /\ UNCHANGED <<height_mm, events>>
         /\ HeightCallbacks(cbQueue') = HeightCallbacks(cbQueue)

\* C18: a notification whose buffer decodes to a height sets the cached
\* height to it, sets the wait handle when there is one and it is unset, and
\* schedules the registered height callback with it, equal to the cached
\* height or not; other notifications do none of this; and the cached height
\* changes in no other step, so it is the latest decoded height, and unknown
\* until one is decoded
C18_HeightDispatch ==
    /\ [][\A data \in NotifyPackets :
             \/ HeightEffect(data)
             \/ \A c \in ConnIds : ~Notify(c, data)]_vars
    /\ [][\/ height_mm' = height_mm
          \/ \E c \in ConnIds, data \in NotifyPackets :
                decode_height(data) # None /\ Notify(c, data)]_vars

C18_Witness ==
    /\ height_mm = Some(100)
    /\ HeightCallbacks(cbQueue) = <<<<"height", 100>>, <<"height", 100>>>>

\* C19: every call of a session method comes to an end, whatever
\* notifications arrive, when its transport calls, sleeps and timed wait do
C19_OperationsTerminate ==
    \A t \in Tasks : ~Finished(tk[t]) ~> Finished(tk[t])

C19_Witness ==
    \E t \in Tasks :
       /\ tk[t].op = "set_height_mm"
       /\ tk[t].pc = "done"
       /\ tk[t].timedOut
       /\ height_mm = None

\* C20: at most one wait handle is unset at any time, and it is the stored
\* one, so a waiting call waits on a handle that is set or can still be set;
\* and the step that issues a height query leaves an unset handle stored:
\* the old one when it was unset, else a new one
C20_SinglePendingHandle ==
    /\ [](\A i \in DOMAIN events : ~events[i] => i = height_event)
    /\ [](\A t \in Tasks :
            tk[t].pc = "gh_wait" =>
               events[tk[t].waitEv] \/ tk[t].waitEv = height_event)
    /\ [][\A t \in Tasks :
             /\ tk'[t].meth = "get_height"
             /\ tk'[t].pc = "write"
             /\ tk[t].pc # "write"
             => /\ height_event' # 0
                /\ ~events'[height_event']
                /\ IF height_event # 0 /\ ~events[height_event]
                   THEN UNCHANGED <<height_event, events>>
                   ELSE /\ height_event' = Len(events) + 1
                        /\ events' = Append(events, FALSE)]_vars

C20_Witness ==
    /\ Len(events) = 2
    /\ events[1]
    /\ ~events[2]
    /\ \E t \in Tasks : tk[t].pc = "gh_wait" /\ tk[t].waitEv = 2

\* C21: the cached height and the cached lock flag change only in a step that
\* is a notification: no step of connect, disconnect, a command method
\* (lock and unlock included), set_height_mm or get_height changes either
C21_CacheOnlyByNotify ==
    [][\/ UNCHANGED <<height_mm, locked>>
       \/ \E c \in ConnIds, data \in CachePackets : Notify(c, data)]_vars

\* lock() has written its frame and returned while the cached flag is the
\* unlocked state that the device reported, and a height has been cached
C21_Witness ==
    \E t \in Tasks :
       /\ tk[t].op = "lock"
       /\ tk[t].pc = "done"
       /\ Own(tk[t]) # {}
       /\ locked = Some(FALSE)
       /\ height_mm = Some(750)

\* C22: in the order the writes are issued to the transport, the payload
\* frame of a save_sit_preset, save_stand_preset or set_height_mm call is the
\* write next after that call's priming frame, whatever other calls are in
\* flight
C22_PrimingAdjacent ==
    \A i \in DOMAIN writes, j \in DOMAIN writes :
       /\ writes[i].meth \in PrimedMethods
       /\ writes[i].idx = 1
       /\ writes[j].call = writes[i].call
       /\ writes[j].meth = writes[i].meth
       /\ writes[j].idx = 2
       => j = i + 1

\* connect() returns without error to the method of task t in this step
ConnectReturns(t) ==
    /\ tk'[t].ensured
    /\ \/ ~tk[t].ensured
       \/ tk'[t].call # tk[t].call
       \/ tk[t].pc = "delay" /\ tk'[t].pc # "delay"

\* C23: in the step in which connect() returns without error, the connection
\* in self._client is live, has the notification subscription and has been
\* written the handshake frame
C23_ConnectedMeansReady ==
    [][\A t \in Tasks :
          ConnectReturns(t) =>
             /\ is_connected(client', conns')
             /\ conns'[client'].sub
             /\ conns'[client'].hs]_vars

\* C24: every connection that is open is the one stored in self._client, so
\* the session has at most one open connection
C24_SingleOpenConnection ==
    /\ \A c \in ConnIds : conns[c].open => c = client
    /\ Cardinality({c \in ConnIds : conns[c].open}) <= 1

\* C25: no buffer both decodes to a height and passes the lock-state test;
\* and a step changes at most one of the cached height and the cached lock
\* flag and schedules at most one callback
C25_HeightOrLock ==
    /\ [][\A data \in NotifyPackets :
             \/ ~(decode_height(data) # None /\ is_lock_frame(data))
             \/ \A c \in ConnIds : ~Notify(c, data)]_vars
    /\ [][/\ height_mm' = height_mm \/ locked' = locked
          /\ Len(cbQueue') <= Len(cbQueue) + 1
          /\ Len(HeightCallbacks(cbQueue')) = Len(HeightCallbacks(cbQueue))
             \/ Len(LockCallbacks(cbQueue')) = Len(LockCallbacks(cbQueue))]_vars

\* a height buffer and a lock-state buffer have been notified, each with its
\* own update and callback
C25_Witness ==
    /\ height_mm = Some(750)
    /\ locked = Some(TRUE)
    /\ cbQueue = << <<"height", 750>>, <<"lock", TRUE>> >>

====
